---- MODULE Spec2Model ----
(***************************************************************************)
(* Model of src/gitlab.rs: three process-wide cache groups (release list,  *)
(* single release, tag list), each a RwLock<HashMap<String, CacheManager>>,*)
(* the query functions list_releases / list_tags / get_release that go     *)
(* through them, and the paginated fetch they use as compute function.     *)
(*                                                                         *)
(* Strings are sequences of one-character strings, so that to_kebab_case   *)
(* and the file names are computed character by character.  An Option is a *)
(* sequence of length at most one (<<>> is None, <<x>> is Some(x)).        *)
(* Time is counted in days.                                                *)
(***************************************************************************)
EXTENDS Naturals, Sequences, FiniteSets, TLC

(* ------------------------------ bounds --------------------------------- *)
\* threads calling the query layer concurrently
NThreads == 2
\* calls the threads make in all
MaxCalls == 2
\* last instant of the wall clock (days)
MaxTime == 2
\* pages the remote holds for a list endpoint (sequential specification)
MaxPages == 2

(* --------------------------- characters -------------------------------- *)
Lower == {"a", "b", "c", "e", "g", "k", "l", "m", "p", "r", "s", "t", "z"}

Upper == {"A", "B"}

Digit == {"1"}

\* char::to_lowercase on the letters of the model
ToLower(c) == IF c = "A" THEN "a" ELSE IF c = "B" THEN "b" ELSE c

IsLower(c) == c \in Lower

IsUpper(c) == c \in Upper

\* char::is_alphanumeric
IsAlnum(c) == c \in Lower \cup Upper \cup Digit

LowerWord(w) == [i \in 1..Len(w) |-> ToLower(w[i])]

(* ------------------------- heck::ToKebabCase --------------------------- *)
\* s.split(|c| !c.is_alphanumeric()): the maximal alphanumeric runs, empty
\* ones included (an empty word contributes nothing below).
RECURSIVE SplitWords(_, _, _)
SplitWords(s, i, cur) ==
    IF i > Len(s) THEN <<cur>>
    ELSE IF IsAlnum(s[i]) THEN SplitWords(s, i + 1, Append(cur, s[i]))
    ELSE <<cur>> \o SplitWords(s, i + 1, <<>>)

\* The scan of one word: a boundary after a lowercase character followed
\* by an uppercase one, and before the last of a run of uppercase characters
\* that is followed by a lowercase one.  mode is "B", "L" or "U".
RECURSIVE WordSegments(_, _, _, _)
WordSegments(w, i, init, mode) ==
    IF i > Len(w) THEN <<>>
    ELSE IF i = Len(w) THEN <<LowerWord(SubSeq(w, init, Len(w)))>>
    ELSE LET c == w[i]
             next == w[i + 1]
             next_mode == IF IsLower(c) THEN "L"
                          ELSE IF IsUpper(c) THEN "U" ELSE mode
         IN  IF next_mode = "L" /\ IsUpper(next)
                THEN <<LowerWord(SubSeq(w, init, i))>>
                         \o WordSegments(w, i + 1, i + 1, "B")
             ELSE IF mode = "U" /\ IsUpper(c) /\ IsLower(next)
                THEN <<LowerWord(SubSeq(w, init, i - 1))>>
                         \o WordSegments(w, i + 1, i, "B")
             ELSE WordSegments(w, i + 1, init, next_mode)

RECURSIVE AllSegments(_)
AllSegments(words) ==
    IF words = <<>> THEN <<>>
    ELSE WordSegments(Head(words), 1, 1, "B") \o AllSegments(Tail(words))

RECURSIVE JoinWith(_, _)
JoinWith(segs, sep) ==
    IF segs = <<>> THEN <<>>
    ELSE IF Len(segs) = 1 THEN segs[1]
    ELSE segs[1] \o sep \o JoinWith(Tail(segs), sep)

to_kebab_case(s) == JoinWith(AllSegments(SplitWords(s, 1, <<>>)), <<"-">>)

(* ------------------------------ inputs --------------------------------- *)
Repos == { <<"a", "/", "b">>, <<"a", "B">>, <<"c">> }

Tags == { <<"1">>, <<"r", "e", "l", "e", "a", "s", "e", "s">> }

ApiBases == { <<"https://gitlab.com/api/v4">> }

Threads == 1..NThreads

Groups == {"releases", "release", "tags"}

(* --------------------------- keys and files ---------------------------- *)
\* (mutant) the key is the raw argument, not normalized
KeyOf_raw(g, repo, tag) ==
    IF g = "release" THEN repo \o <<"-">> \o tag ELSE repo

\* list_releases / list_tags: repo.to_kebab_case();
\* get_release: format!("{repo}-{tag}").to_kebab_case()
KeyOf(g, repo, tag) ==
    IF g = "release" THEN to_kebab_case(repo \o <<"-">> \o tag)
    ELSE to_kebab_case(repo)

MsgpackZ == <<".", "m", "s", "g", "p", "a", "c", "k", ".", "z">>

\* (mutant) the file name leaves the key out
FileName_nokey(g, key) ==
    IF g = "tags" THEN <<"t", "a", "g", "s">> \o MsgpackZ
    ELSE IF g = "releases"
        THEN <<"r", "e", "l", "e", "a", "s", "e", "s">> \o MsgpackZ
    ELSE MsgpackZ

\* the file name each get_*_cache formats from the key
FileName(g, key) ==
    IF g = "tags" THEN key \o <<"-", "t", "a", "g", "s">> \o MsgpackZ
    ELSE IF g = "releases"
        THEN key \o <<"-", "r", "e", "l", "e", "a", "s", "e", "s">> \o MsgpackZ
    ELSE key \o MsgpackZ

\* dirs::CACHE.join("gitlab")
cache_dir == <<"CACHE/gitlab">>

\* PathBuf::join with a relative file name
PathOf(g, key) == cache_dir \o <<"/">> \o FileName(g, key)

(* ------------------------------ remote --------------------------------- *)
\* the releases a page may hold, in the order the page lists them: a plain
\* release, a draft and a prerelease (GitlabRelease; the assets, pure data,
\* are left out)
Kinds == <<"plain", "draft", "pre">>

\* the tag names of the releases of page i
TagNames ==
    << <<"v1.0", "v1.1-draft", "v1.2-rc">>, <<"v2.0", "v2.1-draft", "v2.2-rc">>,
       <<"v3.0", "v3.1-draft", "v3.2-rc">>, <<"v4.0", "v4.1-draft", "v4.2-rc">> >>

Release(i, k) ==
    [tag_name |-> TagNames[i][k], draft |-> Kinds[k] = "draft",
     prerelease |-> Kinds[k] = "pre"]

RECURSIVE PageOf(_, _, _)
PageOf(i, k, S) ==
    IF k > Len(Kinds) THEN <<>>
    ELSE (IF k \in S THEN <<Release(i, k)>> ELSE <<>>) \o PageOf(i, k + 1, S)

RECURSIVE ChainsOfLen(_)
ChainsOfLen(n) ==
    IF n = 0 THEN {<<>>}
    ELSE {Append(c, PageOf(n, 1, S)) :
             c \in ChainsOfLen(n - 1), S \in SUBSET (1..Len(Kinds))}

\* what the last page of a chain carries as link header: none, bytes that
\* are no text, or a text with no rel="next" element
LastKinds == {"absent", "nontext", "nonext"}

\* a chain of pages: the records of each page and the last page's header;
\* every page but the last links to the next one
Chains ==
    { [pages |-> p, last |-> l] :
        p \in UNION {ChainsOfLen(n) : n \in 1..MaxPages}, l \in LastKinds }

\* the chain the concurrent specification serves
DefaultChain ==
    [pages |-> << <<Release(1, 1)>>, <<Release(2, 1), Release(2, 2)>> >>,
     last |-> "absent"]

PageTok == <<"p1", "p2", "p3", "p4", "p5", "p6">>

RelNext == "; rel=\"next\""

RelPrev == "; rel=\"prev\""

\* the link header of page i of a chain, as Option of [text, toks]
LinkOf(chain, i) ==
    IF i < Len(chain.pages)
      THEN IF i = 1
             THEN << [text |-> TRUE,
                      toks |-> <<"<", PageTok[i + 1], ">", RelNext>>] >>
             ELSE << [text |-> TRUE,
                      toks |-> <<"<", PageTok[i - 1], ">", RelPrev, ", ",
                                 "<", PageTok[i + 1], ">", RelNext>>] >>
    ELSE IF chain.last = "absent" THEN <<>>
    ELSE IF chain.last = "nontext" THEN << [text |-> FALSE, toks |-> <<>>] >>
    ELSE IF i = 1 THEN << [text |-> TRUE, toks |-> <<>>] >>
    ELSE << [text |-> TRUE, toks |-> <<"<", PageTok[i - 1], ">", RelPrev>>] >>

\* the page a URL names: a continuation URL its page, any other the first
PageIndex(url) ==
    IF Len(url) = 1 /\ \E i \in 1..Len(PageTok) : PageTok[i] = url[1]
      THEN CHOOSE i \in 1..Len(PageTok) : PageTok[i] = url[1]
      ELSE 1

(* ---------------------------- next_page -------------------------------- *)
\* headers.get("link").map(|l| l.to_str().unwrap_or_default().to_string())
\*     .unwrap_or_default()
LinkText(h) == IF h = <<>> THEN <<>> ELSE IF h[1].text THEN h[1].toks ELSE <<>>

\* (mutant) a match of <([^>]+)> starting at token i, whatever its rel
MatchAt_anyrel(toks, i) ==
    /\ toks[i] = "<"
    /\ \E j \in (i + 2)..Len(toks) :
          /\ toks[j] = ">"
          /\ \A k \in (i + 1)..(j - 1) : toks[k] # ">"

\* a match of <([^>]+)>; rel="next" starting at token i
MatchAt(toks, i) ==
    /\ toks[i] = "<"
    /\ \E j \in (i + 2)..(Len(toks) - 1) :
          /\ toks[j] = ">"
          /\ \A k \in (i + 1)..(j - 1) : toks[k] # ">"
          /\ toks[j + 1] = RelNext

\* the capture of the leftmost match, as Option<String>
next_page(h) ==
    LET toks == LinkText(h)
        starts == {i \in 1..Len(toks) : MatchAt(toks, i)}
    IN  IF starts = {} THEN <<>>
        ELSE LET i == CHOOSE x \in starts : \A y \in starts : x <= y
                 j == CHOOSE x \in (i + 2)..Len(toks) :
                         /\ toks[x] = ">"
                         /\ \A k \in (i + 1)..(x - 1) : toks[k] # ">"
             IN  << SubSeq(toks, i + 1, j - 1) >>

(* ------------------------------ state ---------------------------------- *)
\* duration::DAILY, in days
DAILY == 1

VARIABLES
    now,       \* wall clock
    flag,      \* env::MISE_LIST_ALL_VERSIONS
    remote,    \* the chain of pages the list endpoints serve
    lock,      \* group -> [writer, readers]: the RwLock of the group
    CACHE,     \* group -> (key -> manager): RELEASES_CACHE, RELEASE_CACHE, TAGS_CACHE
    files,     \* path -> the file's content
    created,   \* managers built so far
    fetches,   \* executions of a compute function started so far
    pc, op, repo, tag, base, key,  \* per thread: position and arguments of its call
    acc, headers,             \* per thread: list_*_'s accumulator and last headers
    reqs,                     \* per thread: the URLs requested during its call
    run,                      \* per thread: which execution of its manager's
                              \* compute function its call is, or 0
    res,                      \* per thread: the result of its last call
    calls                     \* calls made so far, by all threads

vars == << now, flag, remote, lock, CACHE, files, created, fetches,
           pc, op, repo, tag, base, key, acc, headers, reqs, run, res, calls >>

EmptyMap == << >>

InitState ==
    /\ now = 0
    /\ lock = [g \in Groups |-> [writer |-> 0, readers |-> {}]]
    /\ CACHE = [g \in Groups |-> EmptyMap]
    /\ files = EmptyMap
    /\ created = 0
    /\ fetches = 0
    /\ pc = [t \in Threads |-> "idle"]
    /\ op = [t \in Threads |-> "releases"]
    /\ repo = [t \in Threads |-> <<>>]
    /\ tag = [t \in Threads |-> <<>>]
    /\ base = [t \in Threads |-> <<>>]
    /\ key = [t \in Threads |-> <<>>]
    /\ acc = [t \in Threads |-> <<>>]
    /\ headers = [t \in Threads |-> <<>>]
    /\ reqs = [t \in Threads |-> <<>>]
    /\ run = [t \in Threads |-> 0]
    /\ res = [t \in Threads |-> <<>>]
    /\ calls = 0

Init ==
    /\ InitState
    /\ flag = TRUE
    /\ remote = DefaultChain

(* ------------------------- the cache manager --------------------------- *)
\* (mutant) built with a zero freshness duration: nothing is ever fresh
NewManager_zero(id, path) ==
    [id |-> id, path |-> path, fresh |-> <<0>>, cell |-> <<>>, initBy |-> 0,
     runs |-> 0]

\* (mutant) built without with_fresh_duration: a value never expires
NewManager_forever(id, path) ==
    [id |-> id, path |-> path, fresh |-> <<>>, cell |-> <<>>, initBy |-> 0,
     runs |-> 0]

\* CacheManagerBuilder::new(path).with_fresh_duration(Some(DAILY)).build();
\* id tells the managers built for one key apart, runs counts the executions
\* of compute functions the manager started
NewManager(id, path) ==
    [id |-> id, path |-> path, fresh |-> <<DAILY>>, cell |-> <<>>, initBy |-> 0,
     runs |-> 0]

\* fresh: written less than the freshness duration ago (no duration: always)
IsFresh(m, written) == m.fresh = <<>> \/ now - written < m.fresh[1]

\* the file of manager m of group g read back: absent unless it holds a value
\* of the group's shape
Parse(g, m) ==
    IF m.path \in DOMAIN files /\ files[m.path].shape = g
      THEN << [val |-> files[m.path].val, written |-> files[m.path].written,
               gen |-> files[m.path].gen] >>
      ELSE <<>>

\* the value get_or_try_init returns without computing, as an Option: the
\* value in memory when fresh, else the file's when readable and fresh
Cached(g, m) ==
    IF m.cell # <<>> /\ IsFresh(m, m.cell[1].written) THEN m.cell
    ELSE IF Parse(g, m) # <<>> /\ IsFresh(m, Parse(g, m)[1].written) THEN Parse(g, m)
    ELSE <<>>

\* (mutant) callers are let into the population of m side by side
MayEnter_unguarded(m) == m.initBy \in {0} \cup Threads

\* no other caller is inside get_or_try_init's population of m
MayEnter(m) == m.initBy = 0

\* the manager after a compute function returned value c: kept in memory
goi_store(m, c) == [m EXCEPT !.cell = <<c>>, !.initBy = 0]

\* the manager after a compute function failed: nothing kept, free again
goi_fail(m) == [m EXCEPT !.initBy = 0]

\* the files after manager m wrote value c of shape g: m's file replaced
write_file(g, m, c) ==
    (m.path :> [shape |-> g, val |-> c.val, written |-> c.written, gen |-> c.gen])
        @@ files

\* a call's result: the value, with the compute execution that produced it
\* and the instant it was stored
Ok(c) == << [ok |-> TRUE, val |-> c.val, gen |-> c.gen, at |-> c.written] >>

Err == << [ok |-> FALSE, val |-> <<>>, gen |-> 0, at |-> 0] >>

(* --------------------------- the cache groups -------------------------- *)
\* (mutant) HashMap::insert(key, build()): an existing entry is replaced
or_insert_with_replacing(map, k, m) == (k :> m) @@ map

\* (mutant) inserting a new key drops the entries of the other keys
or_insert_with_evicting(map, k, m) == IF k \in DOMAIN map THEN map ELSE (k :> m)

\* HashMap::entry(key).or_insert_with(build)
or_insert_with(map, k, m) == IF k \in DOMAIN map THEN map ELSE (k :> m) @@ map

\* the managers built so far for key k of a group
Built(map, k) == IF k \in DOMAIN map THEN map[k].id ELSE 0

WriteFree(g) == lock[g].writer = 0 /\ lock[g].readers = {}

ReadFree(g) == lock[g].writer = 0

Mgr(t) == CACHE[op[t]][key[t]]

\* (mutant) the read guard outlives the call
Idle_leaking(t) ==
    /\ pc' = [pc EXCEPT ![t] = "idle"]
    /\ acc' = [acc EXCEPT ![t] = <<>>]
    /\ headers' = [headers EXCEPT ![t] = <<>>]
    /\ lock' = lock

Idle(t) ==
    /\ pc' = [pc EXCEPT ![t] = "idle"]
    /\ acc' = [acc EXCEPT ![t] = <<>>]
    /\ headers' = [headers EXCEPT ![t] = <<>>]
    /\ lock' = [lock EXCEPT ![op[t]].readers = @ \ {t}]

(* ------------------------------ the calls ------------------------------ *)
Call(t, g, r, tg, b) ==
    /\ pc[t] = "idle"
    /\ calls < MaxCalls
    /\ calls' = calls + 1
    /\ op' = [op EXCEPT ![t] = g]
    /\ repo' = [repo EXCEPT ![t] = r]
    /\ tag' = [tag EXCEPT ![t] = tg]
    /\ base' = [base EXCEPT ![t] = b]
    /\ key' = [key EXCEPT ![t] = KeyOf(g, r, tg)]
    /\ reqs' = [reqs EXCEPT ![t] = <<>>]
    /\ run' = [run EXCEPT ![t] = 0]
    /\ res' = [res EXCEPT ![t] = <<>>]
    /\ pc' = [pc EXCEPT ![t] = "write"]
    /\ UNCHANGED << now, flag, remote, lock, CACHE, files, created, fetches,
                    acc, headers >>

list_releases(t, r) == Call(t, "releases", r, <<>>, <<>>)

list_tags(t, r) == Call(t, "tags", r, <<>>, <<>>)

get_release(t, r, tg, b) == Call(t, "release", r, tg, b)

\* get_*_cache, first statement: the write lock is taken ...
WriteLock(t) ==
    /\ pc[t] = "write"
    /\ WriteFree(op[t])
    /\ lock' = [lock EXCEPT ![op[t]].writer = t]
    /\ pc' = [pc EXCEPT ![t] = "insert"]
    /\ UNCHANGED << now, flag, remote, CACHE, files, created, fetches,
                    op, repo, tag, base, key, acc, headers, reqs, run, res, calls >>

\* ... the entry is inserted if absent and the write guard is dropped
InsertEntry(t) ==
    /\ pc[t] = "insert"
    /\ CACHE' = [CACHE EXCEPT ![op[t]] =
                    or_insert_with(@, key[t],
                                   NewManager(Built(@, key[t]) + 1,
                                              PathOf(op[t], key[t])))]
    /\ created' = IF CACHE'[op[t]] = CACHE[op[t]] THEN created ELSE created + 1
    /\ lock' = [lock EXCEPT ![op[t]].writer = 0]
    /\ pc' = [pc EXCEPT ![t] = "read"]
    /\ UNCHANGED << now, flag, remote, files, fetches,
                    op, repo, tag, base, key, acc, headers, reqs, run, res, calls >>

\* get_*_cache, second statement, and cache.get(&key).unwrap().  std's
\* RwLock fixes no priority policy: a reader is let in whenever no writer
\* holds the lock, waiting writers or not.
ReadLock(t) ==
    /\ pc[t] = "read"
    /\ ReadFree(op[t])
    /\ lock' = [lock EXCEPT ![op[t]].readers = @ \cup {t}]
    /\ pc' = [pc EXCEPT ![t] =
                 IF key[t] \in DOMAIN CACHE[op[t]] THEN "goi" ELSE "panic"]
    /\ UNCHANGED << now, flag, remote, CACHE, files, created, fetches,
                    op, repo, tag, base, key, acc, headers, reqs, run, res, calls >>

\* get_or_try_init returns the cached value; the call returns a copy of it
GoiHit(t) ==
    /\ pc[t] = "goi"
    /\ MayEnter(Mgr(t))
    /\ Cached(op[t], Mgr(t)) # <<>>
    /\ LET c == Cached(op[t], Mgr(t))
       IN  /\ CACHE' = [CACHE EXCEPT ![op[t]][key[t]].cell = c]
           /\ res' = [res EXCEPT ![t] = Ok(c[1])]
    /\ Idle(t)
    /\ UNCHANGED << now, flag, remote, files, created, fetches,
                    op, repo, tag, base, key, reqs, run, calls >>

\* get_or_try_init finds nothing fresh and starts the compute function
GoiMiss(t) ==
    /\ pc[t] = "goi"
    /\ MayEnter(Mgr(t))
    /\ Cached(op[t], Mgr(t)) = <<>>
    /\ CACHE' = [CACHE EXCEPT ![op[t]][key[t]] =
                    [@ EXCEPT !.initBy = t, !.runs = @ + 1]]
    /\ fetches' = fetches + 1
    /\ run' = [run EXCEPT ![t] = Mgr(t).runs + 1]
    /\ pc' = [pc EXCEPT ![t] = "fetch"]
    /\ UNCHANGED << now, flag, remote, lock, files, created,
                    op, repo, tag, base, key, acc, headers, reqs, res, calls >>

(* ------------------------ the compute functions ------------------------ *)
\* the URL list_releases_, list_tags_ and get_release_ format
FirstUrl(t) ==
    IF op[t] = "releases"
      THEN <<"https://api.github.com/repos/">> \o repo[t] \o <<"/releases">>
    ELSE IF op[t] = "tags"
      THEN <<"https://api.github.com/repos/">> \o repo[t] \o <<"/tags">>
    ELSE base[t] \o <<"/projects/">> \o repo[t] \o <<"/releases/">> \o tag[t]

\* the records a list endpoint serves on page i, as GitlabRelease or GitlabTag
Records(g, i) ==
    IF g = "tags"
      THEN [j \in 1..Len(remote.pages[i]) |-> [name |-> remote.pages[i][j].tag_name]]
      ELSE remote.pages[i]

\* the release the single-release endpoint serves
OneRelease(t) == [tag_name |-> tag[t], draft |-> FALSE, prerelease |-> FALSE]

\* (mutant) the loop runs whatever MISE_LIST_ALL_VERSIONS says
Continue_unconditional(t) == op[t] # "release" /\ next_page(headers[t]) # <<>>

\* if *env::MISE_LIST_ALL_VERSIONS { while let Some(next) = next_page(&headers)
Continue(t) == op[t] # "release" /\ flag /\ next_page(headers[t]) # <<>>

\* the first request succeeds
FirstFetch(t) ==
    /\ pc[t] = "fetch"
    /\ reqs' = [reqs EXCEPT ![t] = <<FirstUrl(t)>>]
    /\ acc' = [acc EXCEPT ![t] =
                  IF op[t] = "release" THEN <<OneRelease(t)>>
                  ELSE Records(op[t], PageIndex(FirstUrl(t)))]
    /\ headers' = [headers EXCEPT ![t] =
                      IF op[t] = "release" THEN <<>>
                      ELSE LinkOf(remote, PageIndex(FirstUrl(t)))]
    /\ pc' = [pc EXCEPT ![t] = "loop"]
    /\ UNCHANGED << now, flag, remote, lock, CACHE, files, created, fetches,
                    op, repo, tag, base, key, run, res, calls >>

\* (mutant) the loop never replaces the headers it reads the next link from
NextFetch_stale(t) ==
    /\ pc[t] = "loop"
    /\ Continue(t)
    /\ LET next == next_page(headers[t])[1]
       IN  /\ PageIndex(next) <= Len(remote.pages)
           /\ reqs' = [reqs EXCEPT ![t] = Append(@, next)]
           /\ acc' = [acc EXCEPT ![t] = @ \o Records(op[t], PageIndex(next))]
    /\ UNCHANGED << now, flag, remote, lock, CACHE, files, created, fetches,
                    pc, op, repo, tag, base, key, headers, run, res, calls >>

\* one turn of the while loop: the request to the next page succeeds
NextFetch(t) ==
    /\ pc[t] = "loop"
    /\ Continue(t)
    /\ LET next == next_page(headers[t])[1]
       IN  /\ PageIndex(next) <= Len(remote.pages)
           /\ reqs' = [reqs EXCEPT ![t] = Append(@, next)]
           /\ acc' = [acc EXCEPT ![t] = @ \o Records(op[t], PageIndex(next))]
           /\ headers' = [headers EXCEPT ![t] = LinkOf(remote, PageIndex(next))]
    /\ UNCHANGED << now, flag, remote, lock, CACHE, files, created, fetches,
                    pc, op, repo, tag, base, key, run, res, calls >>

\* (mutant) releases.retain(|r| !r.draft)
Retain_drafts_only(rs) == SelectSeq(rs, LAMBDA r : ~r.draft)

\* releases.retain(|r| !r.draft && !r.prerelease)
Retain(rs) == SelectSeq(rs, LAMBDA r : ~r.draft /\ ~r.prerelease)

\* tags.into_iter().map(|t| t.name).collect()
Names(ts) == [j \in 1..Len(ts) |-> ts[j].name]

\* what the compute function of t's call returns on success
Computed(t) ==
    IF op[t] = "releases" THEN Retain(acc[t])
    ELSE IF op[t] = "tags" THEN Names(acc[t])
    ELSE acc[t][1]

\* (mutant) the error of a request is swallowed by the call, which returns
\* an empty default value
FetchErr_swallowed(t) ==
    /\ \/ pc[t] = "fetch"
       \/ pc[t] = "loop" /\ Continue(t)
    /\ reqs' = [reqs EXCEPT ![t] =
                   Append(@, IF pc[t] = "fetch" THEN FirstUrl(t)
                             ELSE next_page(headers[t])[1])]
    /\ CACHE' = [CACHE EXCEPT ![op[t]][key[t]] = goi_fail(@)]
    /\ res' = [res EXCEPT ![t] = Ok([val |-> <<>>, gen |-> run[t], written |-> now])]
    /\ Idle(t)
    /\ UNCHANGED << now, flag, remote, files, created, fetches,
                    op, repo, tag, base, key, run, calls >>

\* (mutant) an error on a later page ends the loop: the pages fetched so far
\* are the result
FetchErr_partial(t) ==
    /\ \/ pc[t] = "fetch"
       \/ pc[t] = "loop" /\ Continue(t)
    /\ reqs' = [reqs EXCEPT ![t] =
                   Append(@, IF pc[t] = "fetch" THEN FirstUrl(t)
                             ELSE next_page(headers[t])[1])]
    /\ LET c == [val |-> Computed(t), written |-> now, gen |-> run[t]]
       IN  IF pc[t] = "fetch"
             THEN /\ CACHE' = [CACHE EXCEPT ![op[t]][key[t]] = goi_fail(@)]
                  /\ files' = files
                  /\ res' = [res EXCEPT ![t] = Err]
             ELSE /\ CACHE' = [CACHE EXCEPT ![op[t]][key[t]] = goi_store(@, c)]
                  /\ files' = write_file(op[t], Mgr(t), c)
                  /\ res' = [res EXCEPT ![t] = Ok(c)]
    /\ Idle(t)
    /\ UNCHANGED << now, flag, remote, created, fetches,
                    op, repo, tag, base, key, run, calls >>

\* the `?` of a request: the error leaves the compute function, then
\* get_or_try_init (nothing stored), then the call
FetchErr(t) ==
    /\ \/ pc[t] = "fetch"
       \/ pc[t] = "loop" /\ Continue(t)
    /\ reqs' = [reqs EXCEPT ![t] =
                   Append(@, IF pc[t] = "fetch" THEN FirstUrl(t)
                             ELSE next_page(headers[t])[1])]
    /\ CACHE' = [CACHE EXCEPT ![op[t]][key[t]] = goi_fail(@)]
    /\ res' = [res EXCEPT ![t] = Err]
    /\ Idle(t)
    /\ UNCHANGED << now, flag, remote, files, created, fetches,
                    op, repo, tag, base, key, run, calls >>

\* the compute function returns Ok: get_or_try_init keeps the value, writes
\* the file (replacing what it held) and the call returns.  A failing disk
\* write is left out: it changes neither the result nor the value in memory.
Finish(t) ==
    /\ pc[t] = "loop"
    /\ ~Continue(t)
    /\ LET c == [val |-> Computed(t), written |-> now, gen |-> run[t]]
       IN  /\ CACHE' = [CACHE EXCEPT ![op[t]][key[t]] = goi_store(@, c)]
           /\ files' = write_file(op[t], Mgr(t), c)
           /\ res' = [res EXCEPT ![t] = Ok(c)]
    /\ Idle(t)
    /\ UNCHANGED << now, flag, remote, created, fetches,
                    op, repo, tag, base, key, reqs, run, calls >>

\* the wall clock advances
Tick ==
    /\ now < MaxTime
    /\ now' = now + 1
    /\ UNCHANGED << flag, remote, lock, CACHE, files, created, fetches,
                    pc, op, repo, tag, base, key, acc, headers, reqs, run, res, calls >>

\* one step of thread t, its calls drawn from the given arguments
Step(t, LR, LT, GR) ==
    \/ \E r \in LR : list_releases(t, r)
    \/ \E r \in LT : list_tags(t, r)
    \/ \E a \in GR : get_release(t, a[1], a[2], a[3])
    \/ WriteLock(t)
    \/ InsertEntry(t)
    \/ ReadLock(t)
    \/ GoiHit(t)
    \/ GoiMiss(t)
    \/ FirstFetch(t)
    \/ NextFetch(t)
    \/ FetchErr(t)
    \/ Finish(t)

\* the concurrent specification: all threads, a fixed chain, few arguments
ConcRepos == { <<"a", "/", "b">>, <<"c">> }

ConcTagRepos == { <<"c">> }

ConcReleases ==
    { << <<"c">>, <<"r", "e", "l", "e", "a", "s", "e", "s">>,
         <<"https://gitlab.com/api/v4">> >> }

Next == Tick \/ \E t \in Threads : Step(t, ConcRepos, ConcTagRepos, ConcReleases)

Spec == Init /\ [][Next]_vars

\* the sequential specification: one thread runs the list queries of one
\* repository against every chain, in either mode, at a fixed instant
InitSeq ==
    /\ InitState
    /\ flag \in BOOLEAN
    /\ remote \in Chains

StepSeq(t, r) ==
    \/ list_releases(t, r)
    \/ list_tags(t, r)
    \/ WriteLock(t)
    \/ InsertEntry(t)
    \/ ReadLock(t)
    \/ GoiHit(t)
    \/ GoiMiss(t)
    \/ FirstFetch(t)
    \/ NextFetch(t)
    \/ FetchErr(t)
    \/ Finish(t)

NextSeq == StepSeq(1, <<"a", "/", "b">>)

SpecSeq == InitSeq /\ [][NextSeq]_vars

\* the normalization specification: all threads, arguments that differ as
\* written and agree once normalized
NormRepos == { <<"a", "/", "b">>, <<"a", "B">> }

NormTagRepos == { <<"a", "B">> }

NormReleases ==
    { << <<"a", "-", "b">>, <<"c">>, <<"https://gitlab.com/api/v4">> >>,
      << <<"a">>, <<"b", "-", "c">>, <<"https://gitlab.com/api/v4">> >> }

NextNorm == Tick \/ \E t \in Threads : Step(t, NormRepos, NormTagRepos, NormReleases)

SpecNorm == Init /\ [][NextNorm]_vars

\* the steps of a call in progress: a thread that can take one eventually
\* does (the scheduler runs it, a lock that stays free is acquired, a
\* pending request returns a response or an error)
Progress(t) ==
    \/ WriteLock(t)
    \/ InsertEntry(t)
    \/ ReadLock(t)
    \/ GoiHit(t)
    \/ GoiMiss(t)
    \/ FirstFetch(t)
    \/ NextFetch(t)
    \/ FetchErr(t)
    \/ Finish(t)

\* the chains of full pages: every page lists a release of each kind
FullChains ==
    { [pages |-> [i \in 1..n |-> PageOf(i, 1, 1..Len(Kinds))], last |-> l] :
        n \in 1..MaxPages, l \in LastKinds }

InitSeqFair ==
    /\ InitState
    /\ flag \in BOOLEAN
    /\ remote \in FullChains

\* the sequential specification under fair scheduling, against the chains
\* of full pages
SpecSeqFair == InitSeqFair /\ [][NextSeq]_vars /\ WF_vars(Progress(1))

\* the fair specification: all threads, one repository and one release, a
\* query of each kind, at a fixed instant, under fair scheduling of every
\* thread
FairRepos == { <<"c">> }

NextFair == \E t \in Threads : Step(t, FairRepos, FairRepos, ConcReleases)

SpecFair == Init /\ [][NextFair]_vars /\ \A t \in Threads : WF_vars(Progress(t))

(* ------------------------------ claims --------------------------------- *)
InCompute(t) == pc[t] \in {"fetch", "loop"}

Returned(t) == pc[t] = "idle" /\ res[t] # <<>>

ReturnedOk(t) == Returned(t) /\ res[t][1].ok

SameEntry(a, b) == op[a] = op[b] /\ key[a] = key[b]

PastInsert(t) == pc[t] \in {"read", "goi", "fetch", "loop"}

Apart(x, y) == IF x >= y THEN x - y ELSE y - x

RECURSIVE SumOver(_, _)
SumOver(f, S) ==
    IF S = {} THEN 0
    ELSE LET x == CHOOSE y \in S : TRUE IN f[x] + SumOver(f, S \ {x})

Entries == SumOver([g \in Groups |-> Cardinality(DOMAIN CACHE[g])], Groups)

\* C1: for threads calling for the same key, the compute function never runs
\* in two of them at once, and two of them that got values stored less than
\* a freshness duration apart got the same value of the same execution.
C1_AtMostOnce ==
    \A a, b \in Threads :
        (a # b /\ SameEntry(a, b)) =>
            /\ ~(InCompute(a) /\ InCompute(b))
            /\ (ReturnedOk(a) /\ ReturnedOk(b)
                  /\ Apart(res[a][1].at, res[b][1].at) < DAILY)
                 => res[a] = res[b]

\* two threads called for the same new key; one computed, the other was
\* served the value of that execution
C1_Witness ==
    \E a, b \in Threads :
        /\ a # b /\ SameEntry(a, b)
        /\ ReturnedOk(a) /\ ReturnedOk(b)
        /\ run[a] # 0 /\ run[b] = 0 /\ res[b][1].gen = run[a]
        /\ fetches = 1

\* C2: in each group a key keeps the manager it was first given (same
\* identity, same file), and as many managers were built as there are keys.
C2_OneManagerPerKey ==
    /\ [](created = Entries)
    /\ [][\A g \in Groups : \A k \in DOMAIN CACHE[g] :
             /\ k \in DOMAIN CACHE'[g]
             /\ CACHE'[g][k].id = CACHE[g][k].id
             /\ CACHE'[g][k].path = CACHE[g][k].path]_vars

\* two threads looked the same key up in one group; one manager was built
C2_Witness ==
    \E a, b \in Threads :
        /\ a # b /\ SameEntry(a, b)
        /\ PastInsert(a) /\ PastInsert(b)
        /\ created = 1

\* C3: a thread about to look up another key of a group in which a compute
\* function is in flight can take the group's write lock at once.
C3_NoCrossKeyBlocking ==
    \A a, b \in Threads :
        (a # b /\ InCompute(a) /\ op[b] = op[a] /\ key[b] # key[a]
             /\ pc[b] = "write")
          => WriteFree(op[b])

\* C4: a call leaves its compute function either by a failed request, and
\* then it returns the error, the manager holds what it held before and is
\* free again, and no file changes; or with a value, and then that value is
\* returned and is the one the manager holds.  A call returns without
\* computing only if something fresh is cached.
C4_ErrorNotCached ==
    [][\A t \in Threads :
          /\ (InCompute(t) /\ pc'[t] = "idle") =>
                IF reqs'[t] # reqs[t]
                  THEN /\ res'[t] = Err
                       /\ CACHE'[op[t]][key[t]] = [Mgr(t) EXCEPT !.initBy = 0]
                       /\ files' = files
                  ELSE /\ res'[t][1].ok
                       /\ res'[t][1].gen = run[t]
                       /\ CACHE'[op[t]][key[t]].initBy = 0
                       /\ CACHE'[op[t]][key[t]].cell =
                            << [val |-> res'[t][1].val, written |-> now,
                                gen |-> run[t]] >>
          /\ (pc[t] = "goi" /\ pc'[t] = "idle") => Cached(op[t], Mgr(t)) # <<>>
      ]_vars

\* a call failed and a later call for the same key computed again, and its
\* value is the one cached
C4_Witness ==
    \E a, b \in Threads :
        /\ a # b /\ SameEntry(a, b)
        /\ Returned(a) /\ ~res[a][1].ok /\ run[a] # 0
        /\ ReturnedOk(b) /\ run[b] > run[a]
        /\ Mgr(b).cell # <<>> /\ Mgr(b).cell[1].gen = run[b]

\* C5: a call that passes get_or_try_init while the manager holds a value
\* stored less than a day ago returns that value, and starts no compute
\* function, makes no request and changes neither the manager nor a file.
C5_FreshHit ==
    [][\A t \in Threads :
          (/\ pc[t] = "goi" /\ pc'[t] # "goi"
           /\ Mgr(t).cell # <<>>
           /\ now - Mgr(t).cell[1].written < DAILY)
          => /\ pc'[t] = "idle"
             /\ res'[t] = Ok(Mgr(t).cell[1])
             /\ fetches' = fetches /\ run'[t] = 0 /\ reqs'[t] = <<>>
             /\ CACHE'[op[t]][key[t]] = Mgr(t)
             /\ files' = files
      ]_vars

\* a call was served the stored value without computing
C5_Witness ==
    \E t \in Threads :
        /\ ReturnedOk(t) /\ run[t] = 0 /\ reqs[t] = <<>>
        /\ fetches >= 1
        /\ Mgr(t).cell # <<>> /\ Mgr(t).cell[1].gen = res[t][1].gen

\* C6: a call that passes get_or_try_init while the manager holds a value
\* stored more than a day ago starts the compute function.
C6_StaleRecomputes ==
    [][\A t \in Threads :
          (/\ pc[t] = "goi" /\ pc'[t] # "goi"
           /\ Mgr(t).cell # <<>>
           /\ now - Mgr(t).cell[1].written > DAILY)
          => /\ pc'[t] = "fetch"
             /\ fetches' = fetches + 1
             /\ run'[t] = Mgr(t).runs + 1
      ]_vars

\* a compute function runs for a manager that holds a value older than a day
C6_Witness ==
    \E t \in Threads :
        /\ InCompute(t)
        /\ Mgr(t).cell # <<>>
        /\ now - Mgr(t).cell[1].written > DAILY

RECURSIVE Concat(_)
Concat(pages) == IF pages = <<>> THEN <<>> ELSE Head(pages) \o Concat(Tail(pages))

RECURSIVE PlainOnly(_)
PlainOnly(rs) ==
    IF rs = <<>> THEN <<>>
    ELSE (IF Head(rs).draft \/ Head(rs).prerelease THEN <<>> ELSE <<Head(rs)>>)
             \o PlainOnly(Tail(rs))

\* the releases of the pages a list computation is to read, in page order
Wanted == Concat(IF flag THEN remote.pages ELSE <<remote.pages[1]>>)

\* C7: when a list computation leaves its loop, its accumulator holds the
\* records of all pages in page order if fetch-all mode is on, and those of
\* the first page after a single request if it is off; list_tags returns the
\* names of those records in that order.
C7_Pagination ==
    \A t \in Threads :
        /\ (pc[t] = "loop" /\ op[t] # "release" /\ ~Continue(t)) =>
              /\ acc[t] = IF op[t] = "tags"
                            THEN [j \in 1..Len(Wanted) |-> [name |-> Wanted[j].tag_name]]
                            ELSE Wanted
              /\ Len(reqs[t]) = IF flag THEN Len(remote.pages) ELSE 1
        /\ (ReturnedOk(t) /\ run[t] # 0 /\ op[t] = "tags") =>
              /\ res[t][1].val = [j \in 1..Len(Wanted) |-> Wanted[j].tag_name]
              /\ Len(reqs[t]) = IF flag THEN Len(remote.pages) ELSE 1

\* list_tags returned the names of two pages, fetched in two requests
C7_Witness ==
    \E t \in Threads :
        /\ ReturnedOk(t) /\ run[t] # 0 /\ op[t] = "tags"
        /\ flag /\ Len(remote.pages) >= 2 /\ Len(reqs[t]) >= 2
        /\ remote.pages[1] # <<>> /\ remote.pages[2] # <<>>
        /\ Len(res[t][1].val) = Len(remote.pages[1]) + Len(remote.pages[2])

NoDraft(rs) == \A j \in 1..Len(rs) : ~rs[j].draft /\ ~rs[j].prerelease

\* C8: list_releases returns the accumulated releases that are neither draft
\* nor prerelease, in their order; no value it returns or caches holds a
\* draft or a prerelease.
C8_DraftsDiscarded ==
    /\ \A t \in Threads :
          (ReturnedOk(t) /\ op[t] = "releases") =>
              /\ NoDraft(res[t][1].val)
              /\ run[t] # 0 => res[t][1].val = PlainOnly(Wanted)
    /\ \A k \in DOMAIN CACHE["releases"] :
          CACHE["releases"][k].cell # <<>> => NoDraft(CACHE["releases"][k].cell[1].val)

\* list_releases returned some releases and dropped others
C8_Witness ==
    \E t \in Threads :
        /\ ReturnedOk(t) /\ op[t] = "releases" /\ run[t] # 0
        /\ res[t][1].val # <<>>
        /\ Len(res[t][1].val) < Len(Wanted)

\* C9: a list call whose request fails, the first or a later one, returns the
\* error with no records, and the manager's value and the files stay as they
\* were; a computation starts with an empty accumulator at the first page.
C9_ErrorAborts ==
    /\ [](\A t \in Threads :
             /\ pc[t] = "fetch" => acc[t] = <<>> /\ reqs[t] = <<>>
             /\ reqs[t] # <<>> => reqs[t][1] = FirstUrl(t))
    /\ [][\A t \in Threads :
             (InCompute(t) /\ op[t] # "release" /\ reqs'[t] # reqs[t]
                  /\ pc'[t] = "idle")
             => /\ ~res'[t][1].ok /\ res'[t][1].val = <<>>
                /\ CACHE'[op[t]][key[t]].cell = Mgr(t).cell
                /\ files' = files
         ]_vars

\* a list call failed on a later page and nothing is cached for its key
C9_Witness ==
    \E t \in Threads :
        /\ Returned(t) /\ ~res[t][1].ok /\ op[t] # "release"
        /\ Len(reqs[t]) >= 2
        /\ Mgr(t).cell = <<>>

\* C10: no two managers, of whatever groups and keys, have the same file.
C10_DistinctFiles ==
    \A g1, g2 \in Groups :
        \A k1 \in DOMAIN CACHE[g1] : \A k2 \in DOMAIN CACHE[g2] :
            (g1 # g2 \/ k1 # k2) => CACHE[g1][k1].path # CACHE[g2][k2].path

\* a thread has made a call
Called(t) == pc[t] # "idle" \/ res[t] # <<>>

\* C11: two list calls of one kind whose repositories normalize to the same
\* token use the same key and the same file, and once past the lookup the
\* same manager; the values they return, if stored less than a day apart,
\* are the same value of one execution of a compute function.
C11_SameTokenSameEntry ==
    \A a, b \in Threads :
        (/\ a # b /\ Called(a) /\ Called(b)
         /\ op[a] = op[b] /\ op[a] # "release"
         /\ to_kebab_case(repo[a]) = to_kebab_case(repo[b]))
        => /\ key[a] = key[b]
           /\ PathOf(op[a], key[a]) = PathOf(op[b], key[b])
           /\ (PastInsert(a) /\ PastInsert(b)) => Mgr(a).id = Mgr(b).id
           /\ ~(InCompute(a) /\ InCompute(b))
           /\ (ReturnedOk(a) /\ ReturnedOk(b)
                 /\ Apart(res[a][1].at, res[b][1].at) < DAILY)
                => /\ res[a] = res[b]
                   /\ run[a] = 0 \/ run[b] = 0

\* a call with one spelling computed, a call with another spelling of the
\* same token was served that value without computing
C11_Witness ==
    \E a, b \in Threads :
        /\ a # b /\ op[a] = "releases" /\ op[b] = "releases"
        /\ repo[a] # repo[b]
        /\ ReturnedOk(a) /\ ReturnedOk(b)
        /\ run[a] # 0 /\ run[b] = 0 /\ reqs[b] = <<>>
        /\ res[a] = res[b]

\* the content of the file at a path, if there is one
FileAt(f, p) == IF p \in DOMAIN f THEN <<f[p]>> ELSE <<>>

\* C12: a step of a call for key k1 of a group (its insertion, a hit, the
\* start of its compute, a fetch, its failure, its completion) leaves every
\* other entry k2 of that group as it was: the manager, its stored value and
\* the instant it was stored, and the file behind it.
C12_KeysIndependent ==
    [][\A t \in Threads :
          (pc'[t] # pc[t] \/ reqs'[t] # reqs[t])
          => \A k2 \in DOMAIN CACHE[op'[t]] \ {key'[t]} :
                /\ k2 \in DOMAIN CACHE'[op'[t]]
                /\ CACHE'[op'[t]][k2] = CACHE[op'[t]][k2]
                /\ FileAt(files', CACHE[op'[t]][k2].path)
                     = FileAt(files, CACHE[op'[t]][k2].path)]_vars

\* two keys of one group: one was populated, then the other went through a
\* compute of its own, and the first still holds what it was given
C12_Witness ==
    \E a, b \in Threads :
        /\ a # b /\ op[a] = op[b] /\ key[a] # key[b]
        /\ ReturnedOk(a) /\ run[a] # 0
        /\ Returned(b) /\ run[b] # 0
        /\ Mgr(a).cell # <<>> /\ Mgr(a).cell[1].gen = res[a][1].gen
        /\ FileAt(files, Mgr(a).path) # <<>>

\* C13: while a thread holds a group's write lock no other thread holds a
\* guard of the group; and a thread looking up a key whose manager already
\* exists, in a group no thread is writing, can take its next lock at once,
\* whichever threads hold read guards of the group.
C13_ReadersDoNotBlock ==
    /\ \A g \in Groups : lock[g].writer # 0 => lock[g].readers = {}
    /\ \A t \in Threads :
          (/\ pc[t] \in {"write", "read"}
           /\ key[t] \in DOMAIN CACHE[op[t]]
           /\ lock[op[t]].writer = 0)
          => IF pc[t] = "write" THEN WriteFree(op[t]) ELSE ReadFree(op[t])

\* a response carries no link header, or one that is no text, or a text
\* without a rel="next" element
NoNextElement(h) ==
    \/ h = <<>>
    \/ ~h[1].text
    \/ \A i \in 1..Len(h[1].toks) : h[1].toks[i] # RelNext

\* C14: after a response of a list endpoint whose link header is absent, no
\* text or without a rel="next" element, next_page yields None and the call
\* makes no further request: its next step returns, as a success, the
\* records accumulated so far (filtered or mapped as the query does).
C14_NoHeaderEndsPagination ==
    [][\A t \in Threads :
          (pc[t] = "loop" /\ op[t] # "release" /\ NoNextElement(headers[t]))
          => /\ next_page(headers[t]) = <<>>
             /\ (pc'[t] # pc[t] \/ reqs'[t] # reqs[t])
                => /\ reqs'[t] = reqs[t]
                   /\ Returned(t)' /\ res'[t][1].ok
                   /\ res'[t][1].val = Computed(t)]_vars

\* list_releases fetched two pages, the second with a link header naming
\* only a previous page, and returned
C14_Witness ==
    \E t \in Threads :
        /\ ReturnedOk(t) /\ run[t] # 0 /\ op[t] = "releases"
        /\ flag /\ remote.last = "nonext"
        /\ Len(remote.pages) = 2 /\ Len(reqs[t]) = 2
        /\ res[t][1].val # <<>>

\* C15: with MISE_LIST_ALL_VERSIONS set, the i-th request of a list call
\* goes to page i of the chain, the first to the endpoint's URL and each
\* later one to the URL the previous response's link header names; the
\* records of the pages requested are accumulated in that order; there are
\* never more requests than pages, a call that returns a computed value has
\* made exactly one per page, and every computation ends.
C15_OneRequestPerPage ==
    /\ [](\A t \in Threads :
            (flag /\ op[t] # "release") =>
              /\ Len(reqs[t]) <= Len(remote.pages)
              /\ \A i \in 1..Len(reqs[t]) :
                    /\ PageIndex(reqs[t][i]) = i
                    /\ reqs[t][i] = IF i = 1 THEN FirstUrl(t)
                                    ELSE next_page(LinkOf(remote, i - 1))[1]
              /\ pc[t] = "loop" =>
                    /\ headers[t] = LinkOf(remote, Len(reqs[t]))
                    /\ LET W == Concat(SubSeq(remote.pages, 1, Len(reqs[t])))
                       IN  acc[t] = IF op[t] = "tags"
                                      THEN [j \in 1..Len(W) |-> [name |-> W[j].tag_name]]
                                      ELSE W
              /\ (ReturnedOk(t) /\ run[t] # 0) => Len(reqs[t]) = Len(remote.pages))
    /\ \A t \in Threads : InCompute(t) ~> Returned(t)

\* list_releases walked a chain of two pages in two requests, the second to
\* the URL the first response named, and returned
C15_Witness ==
    \E t \in Threads :
        /\ ReturnedOk(t) /\ run[t] # 0 /\ op[t] = "releases" /\ flag
        /\ Len(remote.pages) = 2
        /\ reqs[t] = <<FirstUrl(t), next_page(LinkOf(remote, 1))[1]>>

\* C16: cache.get(&key).unwrap() never panics: from the moment a call has
\* inserted its key until it returns, whatever the other threads do between
\* its release of the write lock and its read lock, the key is in the map.
C16_LookupNeverFails ==
    \A t \in Threads :
        /\ pc[t] # "panic"
        /\ PastInsert(t) => key[t] \in DOMAIN CACHE[op[t]]

\* a call is past its unwrap while another thread has inserted or found
\* another key of the same group
C16_Witness ==
    \E a, b \in Threads :
        /\ a # b /\ op[a] = op[b] /\ key[a] # key[b]
        /\ pc[a] = "goi" /\ PastInsert(b)
        /\ Cardinality(DOMAIN CACHE[op[a]]) = 2

\* C17: a thread waiting for or holding a group's write lock holds no read
\* guard of any group, and every call that has started returns.
C17_EveryCallReturns ==
    /\ [](\A t \in Threads :
            pc[t] \in {"write", "insert"} => \A g \in Groups : t \notin lock[g].readers)
    /\ \A t \in Threads : (pc[t] # "idle") ~> (pc[t] = "idle")

\* a call waits for the write lock of a group while another thread, inside
\* its compute function, holds the group's read guard
C17_Witness ==
    \E a, b \in Threads :
        /\ a # b /\ pc[b] = "write" /\ ~WriteFree(op[b])
        /\ InCompute(a) /\ op[a] = op[b] /\ a \in lock[op[b]].readers

\* C18: two get_release calls use the same entry of RELEASE_CACHE only if
\* their repositories normalize to the same token and their tags normalize
\* to the same token; and the release a get_release call returns is one
\* fetched for a tag that normalizes to the same token as the tag asked for.
C18_SharedOnlyForSamePair ==
    /\ \A a, b \in Threads :
          (/\ a # b /\ Called(a) /\ Called(b)
           /\ op[a] = "release" /\ op[b] = "release" /\ key[a] = key[b])
          => /\ to_kebab_case(repo[a]) = to_kebab_case(repo[b])
             /\ to_kebab_case(tag[a]) = to_kebab_case(tag[b])
    /\ \A t \in Threads :
          (ReturnedOk(t) /\ op[t] = "release")
          => to_kebab_case(res[t][1].val.tag_name) = to_kebab_case(tag[t])

====
